---- MODULE Spec2Model ----
(***************************************************************************)
(* Subtitle-Merger-GUI: the folder-scan-and-merge pipeline of merger.py    *)
(* (PySide6 front end, variant "qt") and mergerV3.py (customtkinter front  *)
(* end, variant "v3"): analyze_folder, merge_subtitles, the batch loop of  *)
(* ProcessingWorker.run / SubtitleMergerApp.processing_thread, and the     *)
(* front-end handlers that share state with the worker.                    *)
(***************************************************************************)
EXTENDS Integers, Sequences, FiniteSets, TLC

(* ----------------------------- bounds ---------------------------------- *)
\* number of queued events of an earlier run that may still wait in log_queue
\* when the next run is started
MaxStale == 0
\* number of files a folder can hold, where only this program writes to it:
\* the tool cannot create one more file in a folder that holds this many
MaxFiles == 3

(* ------------------------- configuration ------------------------------- *)
VIDEO_EXTENSIONS == {".mp4", ".mkv"}
SUBTITLE_EXTENSION == ".srt"
MKVMERGE_PATH == "C:\\Program Files\\MKVToolNix\\mkvmerge.exe"
\* mutant of OUTPUT_SUFFIX: the suffix is configured empty
NO_OUTPUT_SUFFIX == ""
OUTPUT_SUFFIX == "_subbed"

(* --------------------------- input domains ----------------------------- *)
Variants == {"qt", "v3"}
\* folder paths the user can submit
FolderPaths == {"m/A", "m/B"}
\* identities of the thread objects: a run's events carry its thread's identity,
\* and an identity is used again only when no event of its earlier run is left
Runs == 0..(MaxStale + 1)

\* Python's None where a Path is expected
None == [dir |-> "None", stem |-> "None", suffix |-> "None"]
\* Python's None where an error message is expected
NoError == << >>

\* Path(folder_path).name
PathName(p) == CASE p = "m/A" -> "A" [] p = "m/B" -> "B" [] OTHER -> p

\* str.lower() on the suffixes that occur
Lower(s) == CASE s = ".MKV" -> ".mkv" [] s = ".SRT" -> ".srt" [] s = ".MP4" -> ".mp4" [] OTHER -> s

\* one directory entry as iterdir() yields it; isfile is what is_file() does on
\* it: "yes", "no" (a directory), or "PermissionError" (stat fails, is_file raises)
Entry(stem, suffix, isfile) == [stem |-> stem, suffix |-> suffix, isfile |-> isfile]

\* what iterdir() can do on a folder: raise at once, or yield entries in some
\* enumeration order
Listings ==
  { [raise |-> "none", entries |-> << Entry("a", ".mp4", "yes"), Entry("a", ".srt", "yes") >>],
    [raise |-> "none", entries |-> << Entry("x", ".SRT", "yes"), Entry("b", ".MKV", "yes"),
                                     Entry("a", ".mp4", "yes"), Entry("d", ".srt", "no"),
                                     Entry("y", ".srt", "yes") >>],
    [raise |-> "none", entries |-> << Entry("a", ".srt", "yes"), Entry("n", ".txt", "yes") >>],
    [raise |-> "none", entries |-> << Entry("a", ".mkv", "yes") >>],
    [raise |-> "none", entries |-> << >>],
    [raise |-> "none", entries |-> << Entry("a", ".mp4", "yes"), Entry("a", ".srt", "yes"),
                                     Entry("z", ".srt", "PermissionError") >>],
    [raise |-> "FileNotFoundError", entries |-> << >>],
    [raise |-> "PermissionError", entries |-> << >>],
    [raise |-> "NotADirectoryError", entries |-> << >>] }

\* the exception classes that occur, each with its base classes (itself included)
Bases(exc) ==
  CASE exc = "FileNotFoundError"  -> {"FileNotFoundError", "OSError", "Exception"}
    [] exc = "PermissionError"    -> {"PermissionError", "OSError", "Exception"}
    [] exc = "NotADirectoryError" -> {"NotADirectoryError", "OSError", "Exception"}
    [] exc = "CalledProcessError" -> {"CalledProcessError", "SubprocessError", "Exception"}
    [] OTHER -> {exc}

\* str(e) of the exceptions subprocess.run raises itself
StrOf(exc) ==
  CASE exc = "FileNotFoundError"  -> "[Errno 2] No such file or directory"
    [] exc = "PermissionError"    -> "[Errno 13] Permission denied"
    [] OTHER -> exc

\* what the external tool can do when invoked: the process cannot be spawned
\* (spawn names the OSError), or it runs and exits with a code and stderr text
ToolBehaviours ==
  { [spawn |-> "ok", code |-> 0, stderr |-> ""],
    [spawn |-> "ok", code |-> 1, stderr |-> "bad track"],
    [spawn |-> "ok", code |-> 2, stderr |-> ""],
    [spawn |-> "FileNotFoundError", code |-> 0, stderr |-> ""],
    [spawn |-> "PermissionError", code |-> 0, stderr |-> ""] }

(* ----------------------------- pathlib --------------------------------- *)
\* the Path of a directory entry of folder dir
File(dir, e) == [dir |-> dir, stem |-> e.stem, suffix |-> e.suffix]
\* Path.name
FileName(f) == f.stem \o f.suffix
\* str(Path)
Str(f) == f.dir \o "/" \o f.stem \o f.suffix
\* Path.with_stem / Path.with_suffix
with_stem(f, stem) == [f EXCEPT !.stem = stem]
with_suffix(f, suffix) == [f EXCEPT !.suffix = suffix]
\* truthiness of a message (None and "" are falsy)
Truthy(msg) == \E k \in 1..Len(msg) : msg[k] # ""

(* --------------------- merger.py: analyze_folder ----------------------- *)
\* mutant of iterdir_loop: a later video match replaces the video found before
RECURSIVE iterdir_loop_last_wins(_, _, _, _)
iterdir_loop_last_wins(folder, entries, k, acc) ==
  IF k > Len(entries) THEN acc
  ELSE LET e == entries[k]
           file == File(folder, e)
       IN IF e.isfile = "PermissionError" THEN [acc EXCEPT !.raised = "PermissionError"]
          ELSE IF e.isfile = "yes" /\ Lower(e.suffix) \in VIDEO_EXTENSIONS
          THEN iterdir_loop_last_wins(folder, entries, k + 1, [acc EXCEPT !.video = file])
          ELSE IF e.isfile = "yes" /\ Lower(e.suffix) = SUBTITLE_EXTENSION
          THEN iterdir_loop_last_wins(folder, entries, k + 1, [acc EXCEPT !.subs = Append(@, file)])
          ELSE iterdir_loop_last_wins(folder, entries, k + 1, acc)

\* the body of the for loop over the entries k.. of the listing; acc holds
\* video_file, subtitle_files, the logging.warning calls and a raised exception
RECURSIVE iterdir_loop(_, _, _, _)
iterdir_loop(folder, entries, k, acc) ==
  IF k > Len(entries) THEN acc
  ELSE LET e == entries[k]
           file == File(folder, e)
       IN IF e.isfile = "PermissionError" THEN [acc EXCEPT !.raised = "PermissionError"]
          ELSE IF e.isfile = "yes" /\ Lower(e.suffix) \in VIDEO_EXTENSIONS
          THEN IF acc.video # None
               THEN iterdir_loop(folder, entries, k + 1,
                      [acc EXCEPT !.warnings = Append(@,
                         <<"Multiple videos in ", PathName(folder), ". Using '", FileName(acc.video), "'.">>)])
               ELSE iterdir_loop(folder, entries, k + 1, [acc EXCEPT !.video = file])
          ELSE IF e.isfile = "yes" /\ Lower(e.suffix) = SUBTITLE_EXTENSION
          THEN iterdir_loop(folder, entries, k + 1, [acc EXCEPT !.subs = Append(@, file)])
          ELSE iterdir_loop(folder, entries, k + 1, acc)

\* analyze_folder(folder_path) when the folder lists as `listing`: the returned
\* video_file and subtitle_files, what went to logging, and the exception that
\* leaves the function ("none" when it returns); fault is the exception the
\* enumeration hit, caught or not
analyze_folder(folder, listing) ==
  LET acc0 == [video |-> None, subs |-> << >>, warnings |-> << >>, raised |-> listing.raise]
      acc == IF listing.raise = "none" THEN iterdir_loop(folder, listing.entries, 1, acc0) ELSE acc0
  IN IF acc.raised = "none"
     THEN [raised |-> "none", fault |-> "none", video |-> acc.video, subs |-> acc.subs,
           warnings |-> acc.warnings, errors |-> << >>]
     ELSE IF "FileNotFoundError" \in Bases(acc.raised)
     THEN [raised |-> "none", fault |-> acc.raised, video |-> None, subs |-> << >>,
           warnings |-> acc.warnings, errors |-> << <<"Could not access folder: ", folder, ". It may have been moved or deleted.">> >>]
     ELSE [raised |-> acc.raised, fault |-> acc.raised, video |-> None, subs |-> << >>,
           warnings |-> acc.warnings, errors |-> << >>]

(* -------------------- mergerV3.py: analyze_folder ---------------------- *)
\* mutant of iterdir_loop_v3: is_file() is not asked before the subtitle test
RECURSIVE iterdir_loop_v3_any_entry(_, _, _, _)
iterdir_loop_v3_any_entry(folder, entries, k, acc) ==
  IF k > Len(entries) THEN acc
  ELSE LET e == entries[k]
           file == File(folder, e)
       IN IF e.isfile = "yes" /\ Lower(e.suffix) \in VIDEO_EXTENSIONS
          THEN iterdir_loop_v3_any_entry(folder, entries, k + 1,
                  IF acc.video # None THEN acc ELSE [acc EXCEPT !.video = file])
          ELSE IF Lower(e.suffix) = SUBTITLE_EXTENSION
          THEN iterdir_loop_v3_any_entry(folder, entries, k + 1, [acc EXCEPT !.subs = Append(@, file)])
          ELSE iterdir_loop_v3_any_entry(folder, entries, k + 1, acc)

RECURSIVE iterdir_loop_v3(_, _, _, _)
iterdir_loop_v3(folder, entries, k, acc) ==
  IF k > Len(entries) THEN acc
  ELSE LET e == entries[k]
           file == File(folder, e)
       IN IF e.isfile = "PermissionError" THEN [acc EXCEPT !.raised = "PermissionError"]
          ELSE IF e.isfile = "yes" /\ Lower(e.suffix) \in VIDEO_EXTENSIONS
          THEN IF acc.video # None
               THEN iterdir_loop_v3(folder, entries, k + 1,
                      [acc EXCEPT !.warnings = Append(@,
                         <<"Multiple videos found in ", PathName(folder), ", using first found.">>)])
               ELSE iterdir_loop_v3(folder, entries, k + 1, [acc EXCEPT !.video = file])
          ELSE IF e.isfile = "yes" /\ Lower(e.suffix) = SUBTITLE_EXTENSION
          THEN iterdir_loop_v3(folder, entries, k + 1, [acc EXCEPT !.subs = Append(@, file)])
          ELSE iterdir_loop_v3(folder, entries, k + 1, acc)

analyze_folder_v3(folder, listing) ==
  LET acc0 == [video |-> None, subs |-> << >>, warnings |-> << >>, raised |-> listing.raise]
      acc == IF listing.raise = "none" THEN iterdir_loop_v3(folder, listing.entries, 1, acc0) ELSE acc0
  IN IF acc.raised # "none" /\ "Exception" \in Bases(acc.raised)
     THEN [raised |-> "none", fault |-> acc.raised, video |-> acc.video, subs |-> acc.subs,
           warnings |-> acc.warnings,
           errors |-> << <<"Could not analyze folder ", folder, ": ", StrOf(acc.raised)>> >>]
     ELSE [raised |-> acc.raised, fault |-> acc.raised, video |-> acc.video, subs |-> acc.subs,
           warnings |-> acc.warnings, errors |-> << >>]

(* ------------------------- subprocess.run ------------------------------ *)
\* mutant of subprocess_run: check=True is missing, a nonzero exit raises nothing
subprocess_run_unchecked(b) ==
  [exc |-> IF b.spawn # "ok" THEN b.spawn ELSE "none",
   returncode |-> b.code, stderr |-> b.stderr]

\* subprocess.run(cmd, check=True, capture_output=True, text=True): the
\* exception it raises ("none": it returns a CompletedProcess)
subprocess_run(b) ==
  [exc |-> IF b.spawn # "ok" THEN b.spawn
           ELSE IF b.code # 0 THEN "CalledProcessError" ELSE "none",
   returncode |-> b.code, stderr |-> b.stderr]

\* mutant of sub_args: each subtitle's arguments are put in front of the
\* arguments collected before, so the subtitles come out in reverse order
RECURSIVE sub_args_reversed(_, _)
sub_args_reversed(subtitle_files, k) ==
  IF k > Len(subtitle_files) THEN << >>
  ELSE sub_args_reversed(subtitle_files, k + 1) \o <<"--language", "0:eng", Str(subtitle_files[k])>>

\* the command line both variants build
RECURSIVE sub_args(_, _)
sub_args(subtitle_files, k) ==
  IF k > Len(subtitle_files) THEN << >>
  ELSE <<"--language", "0:eng", Str(subtitle_files[k])>> \o sub_args(subtitle_files, k + 1)

build_cmd(video_file, subtitle_files, output_path) ==
  <<MKVMERGE_PATH, "-o", Str(output_path), Str(video_file)>> \o sub_args(subtitle_files, 1)

(* --------------------- merger.py: merge_subtitles ---------------------- *)
\* merge_subtitles(video_file, subtitle_files, output_path) when the tool
\* behaves as b: the returned (success, error_msg), the command run, and the
\* exception that leaves the function ("none" when it returns)
merge_subtitles(video_file, subtitle_files, output_path, b) ==
  LET cmd == build_cmd(video_file, subtitle_files, output_path)
      p == subprocess_run(b)
  IN IF p.exc = "none"
     THEN [raised |-> "none", success |-> TRUE, error |-> NoError, cmd |-> cmd]
     ELSE IF "CalledProcessError" \in Bases(p.exc)
     THEN [raised |-> "none", success |-> FALSE, cmd |-> cmd,
           error |-> <<"mkvmerge error (Code ", ToString(p.returncode), "): ", p.stderr>>]
     ELSE IF "FileNotFoundError" \in Bases(p.exc)
     THEN [raised |-> "none", success |-> FALSE, cmd |-> cmd,
           error |-> <<"mkvmerge not found. Ensure MKVToolNix is installed and in your system's PATH.">>]
     ELSE IF "Exception" \in Bases(p.exc)
     THEN [raised |-> "none", success |-> FALSE, cmd |-> cmd,
           error |-> <<"Unexpected error: ", StrOf(p.exc)>>]
     ELSE [raised |-> p.exc, success |-> FALSE, error |-> NoError, cmd |-> cmd]

(* -------------------- mergerV3.py: merge_subtitles --------------------- *)
merge_subtitles_v3(video_file, subtitle_files, output_path, b) ==
  LET cmd == build_cmd(video_file, subtitle_files, output_path)
      p == subprocess_run(b)
  IN IF p.exc = "none"
     THEN [raised |-> "none", success |-> TRUE, error |-> NoError, cmd |-> cmd]
     ELSE IF "Exception" \in Bases(p.exc)
     THEN [raised |-> "none", success |-> FALSE, cmd |-> cmd,
           error |-> IF p.exc = "CalledProcessError" THEN <<p.stderr>> ELSE <<StrOf(p.exc)>>]
     ELSE [raised |-> p.exc, success |-> FALSE, error |-> NoError, cmd |-> cmd]

\* mutant of output_of: with_suffix('.mkv') is missing
output_of_keep_suffix(video_file) ==
  with_stem(video_file, video_file.stem \o OUTPUT_SUFFIX)

\* the output path both run loops compute from the selected video
output_of(video_file) ==
  with_suffix(with_stem(video_file, video_file.stem \o OUTPUT_SUFFIX), ".mkv")

(* ------------------------------ state ---------------------------------- *)
VARIABLES
  variant,             \* which program runs: merger.py ("qt") or mergerV3.py ("v3")
  folders_to_process,  \* self.folders_to_process, the front end's set
  is_processing,       \* self.is_processing; the buttons are disabled with it
  thread,              \* self.thread: the identity of the thread started last
  worker,              \* per started thread: the locals of run / processing_thread
  chan,                \* events in flight to the front end: Qt's queued signals, V3's log_queue
  seen,                \* what the observer has been shown since the log was last cleared
  disk,                \* per folder path: what the folder holds, where only this program writes to it
  resubmitted          \* history: a path already in folders_to_process was submitted again

vars == <<variant, folders_to_process, is_processing, thread, worker, chan, seen, disk, resubmitted>>

\* a thread that has not been started, or whose objects were released
NoWorker ==
  [pc |-> "idle", folders |-> << >>, started |-> {}, i |-> 0, success_count |-> 0,
   video |-> None, subs |-> << >>, output |-> None, trace |-> << >>]

\* an event for the observer: one signal emission / one log_queue item / one label update
Ev(kind, run, idx, total, succ, text) ==
  [kind |-> kind, run |-> run, idx |-> idx, total |-> total, succ |-> succ, text |-> text]

\* mutant of Orders: the folders are kept in a list, where a path submitted
\* again appears again
OrdersRepeating(S) == [1..(Cardinality(S) + 1) -> S]

\* the orders in which list(a_set) can enumerate the set
Orders(S) ==
  { o \in [1..Cardinality(S) -> S] : \A a, b \in 1..Cardinality(S) : o[a] = o[b] => a = b }

\* worker-side timeline entries (kept per thread in trace)
Emitted(evs) == [k \in 1..Len(evs) |-> [op |-> "emit", ev |-> evs[k]]]

\* a folder that the user and other programs change at will: each enumeration
\* can find anything in it
OpenFolder == [closed |-> FALSE, files |-> {}, merged |-> {}]
\* a folder holding these files, to which only this program writes from now on;
\* merged is history: the (video, output) pairs of the successful merges in it
ClosedFolder(files) == [closed |-> TRUE, files |-> files, merged |-> {}]

\* what the folders hold at the start where only this program writes to them
InitialFolders ==
  { { Entry("a", ".mp4", "yes"), Entry("a", ".srt", "yes") },
    { Entry("b", ".MKV", "yes"), Entry("x", ".SRT", "yes") } }

\* what folder.iterdir() can do for folder_path
Enumerations(folder_path) ==
  IF disk[folder_path].closed
  THEN { [raise |-> "none", entries |-> o] : o \in Orders(disk[folder_path].files) }
  ELSE Listings

\* the directory entry of a file the tool has written
EntryOf(f) == Entry(f.stem, f.suffix, "yes")

\* what the tool can do when asked to write output_path: it cannot exit with
\* status 0 where the folder is full and the output is not there to be overwritten
ToolBehavioursOn(folder_path, output_path) ==
  IF /\ disk[folder_path].closed
     /\ EntryOf(output_path) \notin disk[folder_path].files
     /\ Cardinality(disk[folder_path].files) >= MaxFiles
  THEN { b \in ToolBehaviours : ~(b.spawn = "ok" /\ b.code = 0) }
  ELSE ToolBehaviours

\* the folder after merge_subtitles returned success for (video_file, output_path):
\* the tool created or overwrote the output file
written(d, video_file, output_path, success) ==
  IF d.closed /\ success
  THEN [d EXCEPT !.files = @ \cup {EntryOf(output_path)},
                 !.merged = @ \cup {[video |-> video_file, output |-> output_path]}]
  ELSE d

InitApp ==
  /\ variant \in Variants
  /\ folders_to_process = {}
  /\ is_processing = FALSE
  /\ thread = 0
  /\ worker = [w \in Runs |-> NoWorker]
  /\ chan = << >>
  /\ seen = << >>
  /\ resubmitted = FALSE

Init ==
  /\ InitApp
  /\ disk = [f \in FolderPaths |-> OpenFolder]

\* the program started on folders that nothing else touches: one of them holds
\* a video and a subtitle, the others are empty
InitRerun ==
  /\ InitApp
  /\ \E files \in InitialFolders :
       disk = [f \in FolderPaths |-> IF f = "m/A" THEN ClosedFolder(files) ELSE ClosedFolder({})]

(* ----------------------- merger.py: front end -------------------------- *)
\* mutant of StartEnabled: the start button is never disabled
StartAlwaysEnabled == TRUE

\* set_ui_state: btn_start is disabled exactly while is_processing
StartEnabled == ~is_processing

\* dropEvent, for the dropped urls that are directories
GUI_dropEvent(paths) ==
  /\ variant = "qt"
  /\ folders_to_process' = IF is_processing THEN folders_to_process
                           ELSE folders_to_process \cup paths
  /\ resubmitted' = IF is_processing THEN resubmitted
                    ELSE resubmitted \/ (paths \cap folders_to_process # {})
  /\ UNCHANGED <<variant, is_processing, thread, worker, chan, seen, disk>>

\* browse_folders, the dialog returning folder
GUI_browse_folders(folder) ==
  /\ variant = "qt"
  /\ folders_to_process' = IF is_processing THEN folders_to_process
                           ELSE folders_to_process \cup {folder}
  /\ resubmitted' = IF is_processing THEN resubmitted
                    ELSE resubmitted \/ folder \in folders_to_process
  /\ UNCHANGED <<variant, is_processing, thread, worker, chan, seen, disk>>

\* clear_list
GUI_clear_list ==
  /\ variant = "qt"
  /\ folders_to_process' = IF is_processing THEN folders_to_process ELSE {}
  /\ resubmitted' = IF is_processing THEN resubmitted ELSE FALSE
  /\ UNCHANGED <<variant, is_processing, thread, worker, chan, seen, disk>>

\* the identity the next thread object gets
NextThread == (thread + 1) % (MaxStale + 2)

\* the worker objects of finished threads are released (deleteLater)
Released(ws) == [w \in Runs |-> IF ws[w].pc = "done" THEN NoWorker ELSE ws[w]]

\* start_processing: the worker gets list(self.folders_to_process)
GUI_start_processing ==
  /\ variant = "qt"
  /\ StartEnabled
  /\ worker[NextThread].pc \in {"idle", "done"}
  /\ folders_to_process # {}
  /\ \E order \in Orders(folders_to_process) :
       worker' = [Released(worker) EXCEPT ![NextThread] =
                    [NoWorker EXCEPT !.pc = "loop", !.folders = order,
                                     !.started = folders_to_process]]
  /\ is_processing' = TRUE
  /\ seen' = << >>
  /\ thread' = NextThread
  /\ UNCHANGED <<variant, folders_to_process, chan, disk, resubmitted>>

\* the Qt event loop delivers the oldest queued signal to its slot:
\* log_message, update_progress or processing_finished
GUI_deliver ==
  /\ variant = "qt"
  /\ chan # << >>
  /\ seen' = Append(seen, Head(chan))
  /\ chan' = Tail(chan)
  /\ is_processing' = IF Head(chan).kind = "summary" THEN FALSE ELSE is_processing
  /\ UNCHANGED <<variant, folders_to_process, thread, worker, disk, resubmitted>>

(* ------------------ merger.py: ProcessingWorker.run -------------------- *)
\* mutant of skip_reason: the test for subtitles is missing
skip_reason_video_only(video_file, subtitle_files) ==
  IF video_file = None THEN <<"WARNING: No video file found.">> ELSE NoError

\* the two skip tests of the loop: the warning to emit, or none
skip_reason(video_file, subtitle_files) ==
  IF video_file = None THEN <<"WARNING: No video file found.">>
  ELSE IF subtitle_files = << >> THEN <<"WARNING: No subtitle files (.srt) found.">>
  ELSE NoError

\* mutant of count_success: failed merges are counted too
count_success_always(success_count, success) == success_count + 1

\* success_count after a merge that returned success
count_success(success_count, success) ==
  IF success THEN success_count + 1 ELSE success_count

\* top of the loop body: progress and the "Analyzing" line
Worker_progress(w) ==
  /\ variant = "qt"
  /\ worker[w].pc = "loop"
  /\ worker[w].i < Len(worker[w].folders)
  /\ LET me == worker[w]
         idx == me.i + 1
         total == Len(me.folders)
         evs == << Ev("progress", w, idx, total, 0, <<PathName(me.folders[idx])>>),
                   Ev("analyzing", w, idx, total, 0, <<me.folders[idx]>>) >>
     IN /\ worker' = [worker EXCEPT ![w] = [me EXCEPT !.i = idx, !.pc = "analyze",
                                                      !.trace = @ \o Emitted(evs)]]
        /\ chan' = chan \o evs
  /\ UNCHANGED <<variant, folders_to_process, is_processing, thread, seen, disk, resubmitted>>

\* analyze_folder, the skip tests, and up to the call of subprocess.run
Worker_analyze(w) ==
  /\ variant = "qt"
  /\ worker[w].pc = "analyze"
  /\ \E listing \in Enumerations(worker[w].folders[worker[w].i]) :
       LET me == worker[w]
           total == Len(me.folders)
           r == analyze_folder(me.folders[me.i], listing)
           called == [op |-> "analyze", idx |-> me.i, listing |-> listing,
                      fault |-> r.fault, raised |-> r.raised,
                      video |-> r.video, subs |-> r.subs, logged |-> r.warnings \o r.errors]
           skip == skip_reason(r.video, r.subs)
           out == output_of(r.video)
           infos == << Ev("info", w, me.i, total, 0, <<"Video: ", FileName(r.video)>>),
                       Ev("info", w, me.i, total, 0, <<"Subtitles: ", ToString(Len(r.subs)), " file(s) found.">>) >>
           warn == << Ev("skip", w, me.i, total, 0, skip) >>
       IN IF r.raised # "none"
          THEN /\ worker' = [worker EXCEPT ![w] = [me EXCEPT !.pc = "crashed",
                                                           !.trace = Append(@, called)]]
               /\ chan' = chan
          ELSE IF skip # NoError
          THEN /\ worker' = [worker EXCEPT ![w] = [me EXCEPT !.pc = "loop",
                                !.trace = Append(@, called) \o Emitted(warn)]]
               /\ chan' = chan \o warn
          ELSE /\ worker' = [worker EXCEPT ![w] = [me EXCEPT !.pc = "tool",
                                !.video = r.video, !.subs = r.subs, !.output = out,
                                !.trace = Append(@, called) \o Emitted(infos) \o
                                   << [op |-> "exec", idx |-> me.i, video |-> r.video,
                                       subs |-> r.subs, output |-> out] >>]]
               /\ chan' = chan \o infos
  /\ UNCHANGED <<variant, folders_to_process, is_processing, thread, seen, disk, resubmitted>>

\* subprocess.run returns or raises, merge_subtitles returns, the outcome is reported
Worker_merge(w) ==
  /\ variant = "qt"
  /\ worker[w].pc = "tool"
  /\ \E b \in ToolBehavioursOn(worker[w].folders[worker[w].i], worker[w].output) :
       LET me == worker[w]
           total == Len(me.folders)
           m == merge_subtitles(me.video, me.subs, me.output, b)
           ret == [op |-> "ret", idx |-> me.i, tool |-> b, raised |-> m.raised,
                   success |-> m.success, error |-> m.error, cmd |-> m.cmd]
           ev == IF m.success
                 THEN << Ev("success", w, me.i, total, 0, <<"SUCCESS: Created '", FileName(me.output), "'">>) >>
                 ELSE << Ev("error", w, me.i, total, 0, <<"ERROR: Failed to merge. ">> \o
                            (IF Truthy(m.error) THEN m.error ELSE <<"Unknown reason.">>)) >>
       IN /\ disk' = [disk EXCEPT ![me.folders[me.i]] = written(@, me.video, me.output, m.success)]
          /\ IF m.raised # "none"
             THEN /\ worker' = [worker EXCEPT ![w] = [me EXCEPT !.pc = "crashed",
                                                              !.trace = Append(@, ret)]]
                  /\ chan' = chan
             ELSE /\ worker' = [worker EXCEPT ![w] = [me EXCEPT !.pc = "loop",
                                   !.video = None, !.subs = << >>, !.output = None,
                                   !.success_count = count_success(@, m.success),
                                   !.trace = Append(@, ret) \o Emitted(ev)]]
                  /\ chan' = chan \o ev
  /\ UNCHANGED <<variant, folders_to_process, is_processing, thread, seen, resubmitted>>

\* after the loop: summary.emit and finished.emit
Worker_finish(w) ==
  /\ variant = "qt"
  /\ worker[w].pc = "loop"
  /\ worker[w].i = Len(worker[w].folders)
  /\ LET me == worker[w]
         ev == << Ev("summary", w, 0, Len(me.folders), me.success_count, << >>) >>
     IN /\ worker' = [worker EXCEPT ![w] = [me EXCEPT !.pc = "done", !.trace = @ \o Emitted(ev)]]
        /\ chan' = chan \o ev
  /\ UNCHANGED <<variant, folders_to_process, is_processing, thread, seen, disk, resubmitted>>

(* ---------------------- mergerV3.py: front end ------------------------- *)
\* set_ui_state: btn_start, btn_add and btn_clear are disabled while is_processing
ButtonsEnabled == ~is_processing

\* handle_drop, for the dropped paths that are directories
App_handle_drop(paths) ==
  /\ variant = "v3"
  /\ folders_to_process' = folders_to_process \cup paths
  /\ resubmitted' = (resubmitted \/ (paths \cap folders_to_process # {}))
  /\ UNCHANGED <<variant, is_processing, thread, worker, chan, seen, disk>>

\* browse_folder (btn_add), the dialog returning folder
App_browse_folder(folder) ==
  /\ variant = "v3"
  /\ ButtonsEnabled
  /\ folders_to_process' = folders_to_process \cup {folder}
  /\ resubmitted' = (resubmitted \/ folder \in folders_to_process)
  /\ UNCHANGED <<variant, is_processing, thread, worker, chan, seen, disk>>

\* clear_list (btn_clear)
App_clear_list ==
  /\ variant = "v3"
  /\ ButtonsEnabled
  /\ folders_to_process' = IF is_processing THEN folders_to_process ELSE {}
  /\ resubmitted' = IF is_processing THEN resubmitted ELSE FALSE
  /\ UNCHANGED <<variant, is_processing, thread, worker, chan, seen, disk>>

\* start_processing (btn_start): the thread is started without arguments
App_start_processing ==
  /\ variant = "v3"
  /\ ButtonsEnabled
  /\ worker[NextThread].pc \in {"idle", "done"}
  /\ Len(chan) <= MaxStale
  /\ folders_to_process # {}
  /\ worker' = [Released(worker) EXCEPT ![NextThread] =
                  [NoWorker EXCEPT !.pc = "snapshot", !.started = folders_to_process]]
  /\ is_processing' = TRUE
  /\ seen' = << >>
  /\ thread' = NextThread
  /\ UNCHANGED <<variant, folders_to_process, chan, disk, resubmitted>>

\* process_log_queue: every 100 ms the main loop drains the whole queue
App_process_log_queue ==
  /\ variant = "v3"
  /\ chan # << >>
  /\ seen' = seen \o chan
  /\ chan' = << >>
  /\ UNCHANGED <<variant, folders_to_process, is_processing, thread, worker, disk, resubmitted>>

(* ------------- mergerV3.py: SubtitleMergerApp.processing_thread -------- *)
\* the skip test of the loop: the warning to put on the queue, or none
skip_reason_v3(video, subs) ==
  IF video = None \/ subs = << >> THEN <<"WARNING: ", "No video or subtitles found.">>
  ELSE NoError

\* success_count after a merge that returned success
count_success_v3(success_count, success) ==
  IF success THEN success_count + 1 ELSE success_count

\* first statements of the thread: folders = list(self.folders_to_process)
Thread_snapshot(w) ==
  /\ variant = "v3"
  /\ worker[w].pc = "snapshot"
  /\ \E order \in Orders(folders_to_process) :
       worker' = [worker EXCEPT ![w] = [@ EXCEPT !.pc = "loop", !.folders = order]]
  /\ UNCHANGED <<variant, folders_to_process, is_processing, thread, chan, seen, disk, resubmitted>>

\* top of the loop body: the progress bar and label are set from the thread,
\* the "Analyzing" line goes on the queue
Thread_progress(w) ==
  /\ variant = "v3"
  /\ worker[w].pc = "loop"
  /\ worker[w].i < Len(worker[w].folders)
  /\ LET me == worker[w]
         idx == me.i + 1
         total == Len(me.folders)
         direct == << Ev("progress", w, idx, total, 0, <<PathName(me.folders[idx])>>) >>
         queued == << Ev("analyzing", w, idx, total, 0, <<me.folders[idx]>>) >>
     IN /\ worker' = [worker EXCEPT ![w] = [me EXCEPT !.i = idx, !.pc = "analyze",
                                                      !.trace = @ \o Emitted(direct \o queued)]]
        /\ seen' = seen \o direct
        /\ chan' = chan \o queued
  /\ UNCHANGED <<variant, folders_to_process, is_processing, thread, disk, resubmitted>>

\* analyze_folder, the skip test, and up to the call of subprocess.run
Thread_analyze(w) ==
  /\ variant = "v3"
  /\ worker[w].pc = "analyze"
  /\ \E listing \in Enumerations(worker[w].folders[worker[w].i]) :
       LET me == worker[w]
           total == Len(me.folders)
           r == analyze_folder_v3(me.folders[me.i], listing)
           called == [op |-> "analyze", idx |-> me.i, listing |-> listing,
                      fault |-> r.fault, raised |-> r.raised,
                      video |-> r.video, subs |-> r.subs, logged |-> r.warnings \o r.errors]
           skip == skip_reason_v3(r.video, r.subs)
           out == output_of(r.video)
           warn == << Ev("skip", w, me.i, total, 0, skip) >>
       IN IF r.raised # "none"
          THEN /\ worker' = [worker EXCEPT ![w] = [me EXCEPT !.pc = "crashed",
                                                           !.trace = Append(@, called)]]
               /\ chan' = chan
          ELSE IF skip # NoError
          THEN /\ worker' = [worker EXCEPT ![w] = [me EXCEPT !.pc = "loop",
                                !.trace = Append(@, called) \o Emitted(warn)]]
               /\ chan' = chan \o warn
          ELSE /\ worker' = [worker EXCEPT ![w] = [me EXCEPT !.pc = "tool",
                                !.video = r.video, !.subs = r.subs, !.output = out,
                                !.trace = Append(@, called) \o
                                   << [op |-> "exec", idx |-> me.i, video |-> r.video,
                                       subs |-> r.subs, output |-> out] >>]]
               /\ chan' = chan
  /\ UNCHANGED <<variant, folders_to_process, is_processing, thread, seen, disk, resubmitted>>

\* subprocess.run returns or raises, merge_subtitles returns, the outcome is queued
Thread_merge(w) ==
  /\ variant = "v3"
  /\ worker[w].pc = "tool"
  /\ \E b \in ToolBehavioursOn(worker[w].folders[worker[w].i], worker[w].output) :
       LET me == worker[w]
           total == Len(me.folders)
           m == merge_subtitles_v3(me.video, me.subs, me.output, b)
           ret == [op |-> "ret", idx |-> me.i, tool |-> b, raised |-> m.raised,
                   success |-> m.success, error |-> m.error, cmd |-> m.cmd]
           ev == IF m.success
                 THEN << Ev("success", w, me.i, total, 0, <<"SUCCESS: Created '", FileName(me.output), "'">>) >>
                 ELSE << Ev("error", w, me.i, total, 0, <<"ERROR: ">> \o m.error) >>
       IN /\ disk' = [disk EXCEPT ![me.folders[me.i]] = written(@, me.video, me.output, m.success)]
          /\ IF m.raised # "none"
             THEN /\ worker' = [worker EXCEPT ![w] = [me EXCEPT !.pc = "crashed",
                                                              !.trace = Append(@, ret)]]
                  /\ chan' = chan
             ELSE /\ worker' = [worker EXCEPT ![w] = [me EXCEPT !.pc = "loop",
                                   !.video = None, !.subs = << >>, !.output = None,
                                   !.success_count = count_success_v3(@, m.success),
                                   !.trace = Append(@, ret) \o Emitted(ev)]]
                  /\ chan' = chan \o ev
  /\ UNCHANGED <<variant, folders_to_process, is_processing, thread, seen, resubmitted>>

\* after the loop: the label is set from the thread, the summary goes on the
\* queue, set_ui_state(False)
Thread_finish(w) ==
  /\ variant = "v3"
  /\ worker[w].pc = "loop"
  /\ worker[w].i = Len(worker[w].folders)
  /\ LET me == worker[w]
         direct == << Ev("status", w, 0, Len(me.folders), me.success_count, << >>) >>
         queued == << Ev("summary", w, 0, Len(me.folders), me.success_count, << >>) >>
     IN /\ worker' = [worker EXCEPT ![w] = [me EXCEPT !.pc = "done",
                                                      !.trace = @ \o Emitted(direct \o queued)]]
        /\ seen' = seen \o direct
        /\ chan' = chan \o queued
  /\ is_processing' = FALSE
  /\ UNCHANGED <<variant, folders_to_process, thread, disk, resubmitted>>

(* --------------------------- specification ----------------------------- *)
Next ==
  \/ \E paths \in SUBSET FolderPaths : GUI_dropEvent(paths)
  \/ \E folder \in FolderPaths : GUI_browse_folders(folder)
  \/ GUI_clear_list
  \/ GUI_start_processing
  \/ GUI_deliver
  \/ \E w \in Runs : Worker_progress(w)
  \/ \E w \in Runs : Worker_analyze(w)
  \/ \E w \in Runs : Worker_merge(w)
  \/ \E w \in Runs : Worker_finish(w)
  \/ \E paths \in SUBSET FolderPaths : App_handle_drop(paths)
  \/ \E folder \in FolderPaths : App_browse_folder(folder)
  \/ App_clear_list
  \/ App_start_processing
  \/ App_process_log_queue
  \/ \E w \in Runs : Thread_snapshot(w)
  \/ \E w \in Runs : Thread_progress(w)
  \/ \E w \in Runs : Thread_analyze(w)
  \/ \E w \in Runs : Thread_merge(w)
  \/ \E w \in Runs : Thread_finish(w)

Spec == Init /\ [][Next]_vars

\* the same program on folders that only it writes to
SpecRerun == InitRerun /\ [][Next]_vars

\* a step of a started thread: the operating system schedules it, and every
\* call of the external tool returns
ThreadStep ==
  \E w \in Runs :
    \/ Worker_progress(w) \/ Worker_analyze(w) \/ Worker_merge(w) \/ Worker_finish(w)
    \/ Thread_snapshot(w) \/ Thread_progress(w) \/ Thread_analyze(w)
    \/ Thread_merge(w) \/ Thread_finish(w)

\* the program with its scheduling: a started thread keeps running, the Qt
\* event loop delivers every queued signal, tkinter's after() timer keeps
\* calling process_log_queue
FairSpec ==
  /\ Spec
  /\ WF_vars(ThreadStep)
  /\ WF_vars(GUI_deliver)
  /\ WF_vars(App_process_log_queue)

(* ------------------------- reading the state --------------------------- *)
\* the worker-side timeline of thread w
Trace(w) == worker[w].trace
\* whether timeline entry t is the emission of an event of one of the kinds
IsEmit(t, kinds) == t.op = "emit" /\ t.ev.kind \in kinds
\* the events that end a folder's processing for the observer
Terminal == {"skip", "success", "error"}
\* the thread is inside run / processing_thread
Active(w) == worker[w].pc \in {"snapshot", "loop", "analyze", "tool"}
\* the thread has left run / processing_thread, by return or by an exception
RunOver(w) == worker[w].pc \in {"done", "crashed"}
\* all events of thread w have reached the observer, and the log was not cleared since
AllShown(w) == w = thread /\ \A p \in 1..Len(chan) : chan[p].run # w
\* positions of the observer's view holding events of thread w of the given kinds
Shown(w, kinds) == { p \in 1..Len(seen) : seen[p].run = w /\ seen[p].kind \in kinds }
\* whether message msg has part as one of its parts
Contains(msg, part) == \E k \in 1..Len(msg) : msg[k] = part

(* ------------------------------ claims --------------------------------- *)

\* C1: once a run is over and all its events have reached the observer, the
\* observer has exactly one terminal event (skip, success or error) for each
\* folder of the run's list and exactly one summary event.
C1_OneTerminalEventPerFolder ==
  \A w \in Runs :
    (RunOver(w) /\ AllShown(w)) =>
      /\ \A k \in 1..Len(worker[w].folders) :
           Cardinality({ p \in Shown(w, Terminal) : seen[p].idx = k }) = 1
      /\ Cardinality(Shown(w, {"summary"})) = 1

\* C2: no per-folder error aborts the batch: a run stops only when its folder
\* list is exhausted, so a run that is over has analysed every folder of its
\* list and has emitted the summary.
C2_NoErrorAbortsBatch ==
  \A w \in Runs :
    RunOver(w) =>
      /\ \A k \in 1..Len(worker[w].folders) :
           \E p \in 1..Len(Trace(w)) : Trace(w)[p].op = "analyze" /\ Trace(w)[p].idx = k
      /\ \E p \in 1..Len(Trace(w)) : IsEmit(Trace(w)[p], {"summary"})

\* C3: the Executor is invoked for a folder only with the video and the
\* subtitle list the Analyzer returned for it, both present; a folder whose
\* analysis returned no video or no subtitle gets a skip event at once, no
\* external process and no success or error event.
C3_ExecutorOnlyWithVideoAndSubs ==
  \A w \in Runs :
    /\ worker[w].pc = "tool" => worker[w].video # None /\ worker[w].subs # << >>
    /\ \A p \in 1..Len(Trace(w)) :
         LET t == Trace(w)[p] IN
         /\ t.op = "exec" =>
              /\ t.video # None /\ t.subs # << >>
              /\ \E q \in 1..(p - 1) :
                   /\ Trace(w)[q].op = "analyze" /\ Trace(w)[q].idx = t.idx
                   /\ Trace(w)[q].video = t.video /\ Trace(w)[q].subs = t.subs
         /\ (t.op = "analyze" /\ t.raised = "none" /\ (t.video = None \/ t.subs = << >>)) =>
              /\ p < Len(Trace(w))
              /\ IsEmit(Trace(w)[p + 1], {"skip"}) /\ Trace(w)[p + 1].ev.idx = t.idx
              /\ \A q \in 1..Len(Trace(w)) :
                   /\ Trace(w)[q].op \in {"exec", "ret"} => Trace(w)[q].idx # t.idx
                   /\ IsEmit(Trace(w)[q], {"success", "error"}) => Trace(w)[q].ev.idx # t.idx

\* C3 witness: a run that skipped its first folder, which has a video and no
\* subtitle, and has the tool running for its second.
C3_Witness ==
  \E w \in Runs :
    /\ worker[w].pc = "tool" /\ worker[w].i = 2
    /\ \E p \in 1..Len(Trace(w)) :
         /\ Trace(w)[p].op = "analyze" /\ Trace(w)[p].idx = 1
         /\ Trace(w)[p].video # None /\ Trace(w)[p].subs = << >>

\* C4: the summary of a run carries total = the length of the run's folder
\* list and succeeded = the number of success events the run emitted; it is
\* the last thing the run emits, after a terminal event for every folder, and
\* 0 <= succeeded <= total.
C4_SummaryCounts ==
  \A w \in Runs :
    \A p \in 1..Len(Trace(w)) :
      IsEmit(Trace(w)[p], {"summary"}) =>
        LET e == Trace(w)[p].ev IN
        /\ e.total = Len(worker[w].folders)
        /\ e.succ = Cardinality({ q \in 1..Len(Trace(w)) : IsEmit(Trace(w)[q], {"success"}) })
        /\ 0 <= e.succ /\ e.succ <= e.total
        /\ p = Len(Trace(w))
        /\ \A k \in 1..e.total :
             \E q \in 1..(p - 1) : IsEmit(Trace(w)[q], Terminal) /\ Trace(w)[q].ev.idx = k

\* C4 witness: a summary of a two-folder run with one success and one folder
\* that did not succeed.
C4_Witness ==
  \E w \in Runs :
    /\ worker[w].pc = "done"
    /\ \E p \in 1..Len(Trace(w)) :
         /\ IsEmit(Trace(w)[p], {"summary"})
         /\ Trace(w)[p].ev.total = 2 /\ Trace(w)[p].ev.succ = 1

\* the skip warnings the two programs show for a folder that can be read and
\* lacks a video or a subtitle
PlainSkipTexts ==
  { skip_reason(None, << >>), skip_reason([dir |-> "m/A", stem |-> "a", suffix |-> ".mp4"], << >>),
    skip_reason_v3(None, << >>) }

\* C5: a folder whose enumeration fails (moved, deleted, unreadable) makes the
\* Analyzer return an empty result without raising, and the run at once emits
\* for it an event that tells it is inaccessible, different from the warnings
\* for a missing video or missing subtitles; the run goes on to its summary,
\* whose total is the full folder count.
C5_InaccessibleFolderReported ==
  \A w \in Runs :
    \A p \in 1..Len(Trace(w)) :
      LET t == Trace(w)[p] IN
      (t.op = "analyze" /\ t.fault # "none") =>
        /\ t.raised = "none" /\ t.video = None /\ t.subs = << >>
        /\ p < Len(Trace(w))
        /\ Trace(w)[p + 1].op = "emit" /\ Trace(w)[p + 1].ev.idx = t.idx
        /\ Trace(w)[p + 1].ev.text \notin PlainSkipTexts
        /\ RunOver(w) => \E q \in 1..Len(Trace(w)) :
                            /\ IsEmit(Trace(w)[q], {"summary"})
                            /\ Trace(w)[q].ev.total = Len(worker[w].folders)

\* C6: at most one run is inside its loop at any time, at most one external
\* tool invocation is in flight, and within a run the Analyzer is called for
\* folder k + 1 only after folder k was skipped or its Executor call returned.
C6_StrictlySequential ==
  /\ Cardinality({ w \in Runs : Active(w) }) <= 1
  /\ Cardinality({ w \in Runs : worker[w].pc = "tool" }) <= 1
  /\ \A w \in Runs :
       \A p \in 1..Len(Trace(w)) :
         LET t == Trace(w)[p] IN
         /\ (t.op = "analyze" /\ t.idx > 1) =>
              \E q \in 1..(p - 1) :
                \/ Trace(w)[q].op = "ret" /\ Trace(w)[q].idx = t.idx - 1
                \/ IsEmit(Trace(w)[q], {"skip"}) /\ Trace(w)[q].ev.idx = t.idx - 1
         /\ t.op = "exec" =>
              \A q \in (p + 1)..Len(Trace(w)) :
                Trace(w)[q].op \in {"analyze", "exec"} =>
                  \E r \in (p + 1)..(q - 1) : Trace(w)[r].op = "ret" /\ Trace(w)[r].idx = t.idx

\* C6 witness: the tool is running for the second folder of a run, after the
\* Executor call for the first folder returned.
C6_Witness ==
  \E w \in Runs :
    /\ worker[w].pc = "tool" /\ worker[w].i = 2 /\ is_processing
    /\ \E p \in 1..Len(Trace(w)) : Trace(w)[p].op = "ret" /\ Trace(w)[p].idx = 1

\* position of an event in the run's timeline: its folder's index, and after
\* all folders for the summary
FolderOrder(e) == IF e.kind = "summary" THEN e.total + 1 ELSE e.idx

\* C7: the observer is shown the events of a run in folder-processing order:
\* every event of folder i before any event of folder j > i, a folder's
\* progress event before its terminal event, the summary after all of them.
C7_EventsInFolderOrder ==
  \A p, q \in 1..Len(seen) :
    (p < q /\ seen[p].run = seen[q].run /\ "status" \notin {seen[p].kind, seen[q].kind}) =>
      /\ FolderOrder(seen[p]) <= FolderOrder(seen[q])
      /\ ~(seen[p].kind \in Terminal /\ seen[q].kind = "progress" /\ seen[p].idx = seen[q].idx)

\* C8: the folders a run processes are exactly the folders that were in the
\* front end's set when the run was started.
C8_RunProcessesStartSet ==
  \A w \in Runs :
    worker[w].pc \in {"loop", "analyze", "tool", "done", "crashed"} =>
      /\ { worker[w].folders[k] : k \in 1..Len(worker[w].folders) } = worker[w].started
      /\ Len(worker[w].folders) = Cardinality(worker[w].started)

C10_ErrorCausesClassified ==
  \A w \in Runs :
    \A p \in 1..Len(Trace(w)) :
      LET t == Trace(w)[p] IN
      t.op = "ret" =>
        /\ (t.tool.spawn = "ok" /\ t.tool.code # 0) =>
             /\ ~t.success
             /\ Contains(t.error, t.tool.stderr) /\ Contains(t.error, ToString(t.tool.code))
        /\ t.tool.spawn = "FileNotFoundError" =>
             /\ ~t.success
             /\ t.error = <<"mkvmerge not found. Ensure MKVToolNix is installed and in your system's PATH.">>
        /\ t.tool.spawn \notin {"ok", "FileNotFoundError"} =>
             /\ ~t.success
             /\ t.error = <<"Unexpected error: ", StrOf(t.tool.spawn)>>

\* the folder path of timeline entry t of thread w
FolderOf(w, t) == worker[w].folders[t.idx]
\* the enumeration of an analysis ran to its end
Enumerated(t) == t.op = "analyze" /\ t.listing.raise = "none" /\ t.fault = "none"
\* the positions of a listing that hold regular files with a video extension
VideoPositions(entries) ==
  { k \in 1..Len(entries) :
      entries[k].isfile = "yes" /\ Lower(entries[k].suffix) \in VIDEO_EXTENSIONS }

\* C11: the command merge_subtitles runs is [tool path, '-o', output path,
\* video path] followed, for each subtitle in input order, by ['--language',
\* '0:eng', subtitle path]: 4 + 3n elements, the k-th subtitle argument being
\* the k-th subtitle the Executor was given.
C11_CommandShape ==
  \A w \in Runs :
    \A p \in 1..Len(Trace(w)) :
      Trace(w)[p].op = "ret" =>
        \E q \in 1..(p - 1) :
          /\ Trace(w)[q].op = "exec" /\ Trace(w)[q].idx = Trace(w)[p].idx
          /\ LET x == Trace(w)[q]
                 c == Trace(w)[p].cmd
                 n == Len(x.subs)
             IN /\ Len(c) = 4 + 3 * n
                /\ c[1] = MKVMERGE_PATH /\ c[2] = "-o"
                /\ c[3] = Str(x.output) /\ c[4] = Str(x.video)
                /\ \A k \in 1..n :
                     /\ c[3 * k + 2] = "--language" /\ c[3 * k + 3] = "0:eng"
                     /\ c[3 * k + 4] = Str(x.subs[k])

\* C11 witness: merge_subtitles has returned for a video with two subtitles
\* of different names.
C11_Witness ==
  \E w \in Runs :
    \E p \in 1..Len(Trace(w)) :
      /\ Trace(w)[p].op = "ret" /\ Len(Trace(w)[p].cmd) = 10
      /\ Trace(w)[p].cmd[7] # Trace(w)[p].cmd[10]

\* C12: where the enumeration of a folder runs to its end, analyze_folder
\* returns as the video the first entry in enumeration order that is a regular
\* file with a video extension (None when there is none); later video matches
\* neither replace it nor make the analysis fail.
C12_FirstVideoWins ==
  \A w \in Runs :
    \A p \in 1..Len(Trace(w)) :
      LET t == Trace(w)[p] IN
      Enumerated(t) =>
        LET V == VideoPositions(t.listing.entries) IN
        /\ t.raised = "none"
        /\ V = {} => t.video = None
        /\ V # {} => \E k \in V :
                       /\ \A j \in V : k <= j
                       /\ t.video = File(FolderOf(w, t), t.listing.entries[k])

\* C12 witness: merger.py's analysis of a folder that lists two videos.
C12_Witness ==
  \E w \in Runs :
    \E p \in 1..Len(Trace(w)) :
      /\ variant = "qt" /\ Enumerated(Trace(w)[p])
      /\ Cardinality(VideoPositions(Trace(w)[p].listing.entries)) = 2
      /\ Trace(w)[p].video # None

\* the skip warnings that name the missing subtitles
NoSubtitlesTexts ==
  { skip_reason([dir |-> "m/A", stem |-> "a", suffix |-> ".mp4"], << >>),
    skip_reason_v3([dir |-> "m/A", stem |-> "a", suffix |-> ".mp4"], << >>) }

\* C13: a folder that was enumerated to its end and holds no subtitle file is
\* reported as skipped with the reason "no subtitles", whether or not it
\* holds a video.
C13_NoSubtitlesReason ==
  \A w \in Runs :
    \A p \in 1..Len(Trace(w)) :
      LET t == Trace(w)[p] IN
      (Enumerated(t) /\ t.raised = "none" /\ t.subs = << >>) =>
        /\ p < Len(Trace(w))
        /\ IsEmit(Trace(w)[p + 1], {"skip"}) /\ Trace(w)[p + 1].ev.idx = t.idx
        /\ Trace(w)[p + 1].ev.text \in NoSubtitlesTexts

\* C14: the output path handed to the Executor lies in the selected video's
\* directory and is named <video stem>_subbed.mkv, whatever the video's own
\* extension and whatever subtitles were found; it is the path after '-o' in
\* the command.
C14_OutputNaming ==
  \A w \in Runs :
    \A p \in 1..Len(Trace(w)) :
      LET t == Trace(w)[p] IN
      /\ t.op = "exec" =>
           /\ t.output.dir = t.video.dir
           /\ t.output.stem = t.video.stem \o "_subbed"
           /\ t.output.suffix = ".mkv"
           /\ OUTPUT_SUFFIX = "_subbed"
      /\ t.op = "ret" =>
           \E q \in 1..(p - 1) :
             /\ Trace(w)[q].op = "exec" /\ Trace(w)[q].idx = t.idx
             /\ t.cmd[3] = Trace(w)[q].video.dir \o "/" \o Trace(w)[q].video.stem \o "_subbed.mkv"

\* C14 witness: the tool has run for a video whose extension is not '.mkv'.
C14_Witness ==
  \E w \in Runs :
    \E p, q \in 1..Len(Trace(w)) :
      /\ p < q /\ Trace(w)[p].op = "exec" /\ Trace(w)[q].op = "ret"
      /\ Trace(w)[p].idx = Trace(w)[q].idx
      /\ Trace(w)[p].video.suffix # ".mkv"

\* C15: where only the program writes to the folders, every Executor call for
\* a folder that was merged successfully before is for the same source video
\* and the same output path as that merge, whatever the enumeration order and
\* although the earlier output now lies in the folder.
C15_RerunSameChoice ==
  \A w \in Runs :
    \A p \in 1..Len(Trace(w)) :
      LET t == Trace(w)[p] IN
      t.op = "exec" =>
        \A m \in disk[FolderOf(w, t)].merged :
          t.video = m.video /\ t.output = m.output

\* C16: a folder that lists more than one video gets one terminal event, and
\* that event carries the ambiguity note: its text names a video of the folder
\* that was not selected.
C16_AmbiguityAnnotated ==
  \A w \in Runs :
    \A p \in 1..Len(Trace(w)) :
      LET t == Trace(w)[p]
          V == VideoPositions(t.listing.entries)
      IN (Enumerated(t) /\ Cardinality(V) > 1) =>
           /\ Cardinality({ q \in 1..Len(Trace(w)) :
                              IsEmit(Trace(w)[q], Terminal) /\ Trace(w)[q].ev.idx = t.idx }) <= 1
           /\ \A q \in 1..Len(Trace(w)) :
                (IsEmit(Trace(w)[q], Terminal) /\ Trace(w)[q].ev.idx = t.idx) =>
                  \E k \in V :
                    LET other == File(FolderOf(w, t), t.listing.entries[k]) IN
                    /\ other # t.video
                    /\ Contains(Trace(w)[q].ev.text, FileName(other))

\* the positions of the timeline of thread w that hold an entry op for folder k
Calls(w, op, k) == { p \in 1..Len(Trace(w)) : Trace(w)[p].op = op /\ Trace(w)[p].idx = k }

\* C17: within a run the Analyzer is called at most once per folder and the
\* Executor at most once per folder, and a run that is over has called the
\* Analyzer exactly once for every folder of its list.
C17_OncePerFolder ==
  \A w \in Runs :
    \A k \in 1..Len(worker[w].folders) :
      /\ Cardinality(Calls(w, "analyze", k)) <= 1
      /\ Cardinality(Calls(w, "exec", k)) <= 1
      /\ Cardinality(Calls(w, "ret", k)) <= 1
      /\ RunOver(w) => Cardinality(Calls(w, "analyze", k)) = 1

\* C18: the folder list of a run holds each path string of the set once: no
\* path is processed twice in a run and the totals the run reports count each
\* path once, however often it was submitted.
C18_PathsOnce ==
  \A w \in Runs :
    LET fs == worker[w].folders
        paths == { fs[k] : k \in 1..Len(fs) }
    IN /\ \A a, b \in 1..Len(fs) : fs[a] = fs[b] => a = b
       /\ \A f \in paths :
            Cardinality({ p \in 1..Len(Trace(w)) :
                            IsEmit(Trace(w)[p], {"progress"}) /\ fs[Trace(w)[p].ev.idx] = f }) <= 1
       /\ \A p \in 1..Len(Trace(w)) :
            IsEmit(Trace(w)[p], {"progress", "summary"}) =>
              Trace(w)[p].ev.total = Cardinality(paths)

\* C18 witness: a run of two folders has ended, started from a set to which a
\* path it already held was submitted again.
C18_Witness ==
  \E w \in Runs :
    /\ resubmitted /\ worker[w].pc = "done"
    /\ Len(worker[w].folders) = 2 /\ worker[w].started = folders_to_process

\* the regular files of a listing with the subtitle extension, in listing order
SubtitleEntries(entries) ==
  SelectSeq(entries, LAMBDA e : e.isfile = "yes" /\ Lower(e.suffix) = ".srt")

\* C19: where the enumeration of a folder runs to its end, the subtitle list
\* analyze_folder returns is the listing's regular files with extension '.srt'
\* (case-insensitive), in listing order; the video is not among them; the
\* Executor gets this list as it is.
C19_SubtitlesInOrder ==
  \A w \in Runs :
    \A p \in 1..Len(Trace(w)) :
      LET t == Trace(w)[p] IN
      /\ Enumerated(t) =>
           LET ss == SubtitleEntries(t.listing.entries) IN
           /\ t.subs = [k \in 1..Len(ss) |-> File(FolderOf(w, t), ss[k])]
           /\ \A k \in 1..Len(t.subs) : t.subs[k] # t.video
      /\ t.op = "exec" =>
           \E q \in 1..(p - 1) :
             /\ Trace(w)[q].op = "analyze" /\ Trace(w)[q].idx = t.idx
             /\ t.subs = Trace(w)[q].subs
      /\ t.op = "ret" =>
           \E q \in 1..(p - 1) :
             /\ Trace(w)[q].op = "analyze" /\ Trace(w)[q].idx = t.idx
             /\ \A k \in 1..Len(Trace(w)[q].subs) : t.cmd[3 * k + 4] = Str(Trace(w)[q].subs[k])

\* C19 witness: mergerV3.py has run the tool for a folder that lists a
\* directory named like a subtitle and two subtitle files.
C19_Witness ==
  \E w \in Runs :
    \E p, q \in 1..Len(Trace(w)) :
      /\ variant = "v3" /\ p < q
      /\ Enumerated(Trace(w)[p]) /\ Len(Trace(w)[p].subs) = 2
      /\ \E k \in 1..Len(Trace(w)[p].listing.entries) :
           /\ Trace(w)[p].listing.entries[k].isfile = "no"
           /\ Lower(Trace(w)[p].listing.entries[k].suffix) = ".srt"
      /\ Trace(w)[q].op = "ret" /\ Trace(w)[q].idx = Trace(w)[p].idx

\* C20: every started run completes: its thread ends having analysed every
\* folder of its list, and the front end's is_processing flag is false again.
C20_RunCompletes ==
  \A w \in Runs :
    Active(w) ~> (/\ worker[w].pc = "done"
                  /\ ~is_processing
                  /\ \A k \in 1..Len(worker[w].folders) : Calls(w, "analyze", k) # {})

\* C21: while is_processing is true no step changes folders_to_process: a
\* drop, an add-folder and a clear-list request during a run leave the set
\* as it is.
C21_SetFrozenWhileProcessing ==
  [][is_processing => folders_to_process' = folders_to_process]_vars

\* C22: the output path handed to the Executor differs from the selected
\* video's path and from every subtitle path of the same command.
C22_OutputIsNoInput ==
  \A w \in Runs :
    \A p \in 1..Len(Trace(w)) :
      LET t == Trace(w)[p] IN
      /\ t.op = "exec" =>
           /\ Str(t.output) # Str(t.video)
           /\ \A k \in 1..Len(t.subs) : Str(t.output) # Str(t.subs[k])
      /\ t.op = "ret" =>
           \A k \in 4..Len(t.cmd) : t.cmd[k] # t.cmd[3]

\* C22 witness: the Executor was called for a video whose extension is
\* already '.mkv', an output of an earlier merge.
C22_Witness ==
  \E w \in Runs :
    \E p \in 1..Len(Trace(w)) :
      /\ Trace(w)[p].op = "exec" /\ Trace(w)[p].video.suffix = ".mkv"
      /\ EntryOf(Trace(w)[p].video) \in disk[FolderOf(w, Trace(w)[p])].files
      /\ disk[FolderOf(w, Trace(w)[p])].merged # {}

\* what merger.py's loop does with a folder that lists as `listing`: whether
\* analyze_folder raises, and the video and subtitles it hands to the Executor
\* (None and no subtitles when it skips the folder)
step_qt(folder, listing) ==
  LET r == analyze_folder(folder, listing)
      go == r.raised = "none" /\ skip_reason(r.video, r.subs) = NoError
  IN [raised |-> r.raised, exec |-> go,
      video |-> IF go THEN r.video ELSE None, subs |-> IF go THEN r.subs ELSE << >>]

\* the same for mergerV3.py's loop
step_v3(folder, listing) ==
  LET r == analyze_folder_v3(folder, listing)
      go == r.raised = "none" /\ skip_reason_v3(r.video, r.subs) = NoError
  IN [raised |-> r.raised, exec |-> go,
      video |-> IF go THEN r.video ELSE None, subs |-> IF go THEN r.subs ELSE << >>]

\* C23: on the same folder, the same enumeration behaviour and the same tool
\* behaviour the two programs do the same: each analysis of a run gives, in the
\* other program too, the same decision to skip or to call the Executor with
\* the same video and subtitles, and each Executor call gives in the other
\* program the same command, the same success and the same count.
C23_VariantsAgree ==
  \A w \in Runs :
    \A p \in 1..Len(Trace(w)) :
      LET t == Trace(w)[p] IN
      /\ t.op = "analyze" =>
           step_qt(FolderOf(w, t), t.listing) = step_v3(FolderOf(w, t), t.listing)
      /\ t.op = "ret" =>
           \E q \in 1..(p - 1) :
             /\ Trace(w)[q].op = "exec" /\ Trace(w)[q].idx = t.idx
             /\ LET x == Trace(w)[q]
                    a == merge_subtitles(x.video, x.subs, output_of(x.video), t.tool)
                    b == merge_subtitles_v3(x.video, x.subs, output_of(x.video), t.tool)
                IN /\ a.raised = b.raised /\ a.success = b.success /\ a.cmd = b.cmd
                   /\ t.success = a.success /\ t.cmd = a.cmd
                   /\ count_success(0, a.success) = count_success_v3(0, b.success)

====
